---- MODULE Spec2Model ----
(***************************************************************************)
(* Model of the per-transaction decision pipeline of the fraud detection   *)
(* system: 02_Lambda_Processor/lambda_function.py (lambda_handler and its  *)
(* helpers) and 02_Lambda_Processor/graph_logic/graph_queries.py           *)
(* (is_linked_to_fraud).                                                   *)
(*                                                                         *)
(* One invocation of lambda_handler walks over event['Records'].  The      *)
(* records already iterated over are never read again by the code, so the  *)
(* model keeps the length of the batch (n), the loop position (idx) and    *)
(* the record under the loop variable; the content of each record is drawn *)
(* when the for loop reaches it.  The locals of the loop body keep their   *)
(* value until the loop picks the next record.                             *)
(***************************************************************************)
EXTENDS Integers, Sequences, FiniteSets, TLC

\* ------------------------------------------------------------------ bounds
\* longest batch event['Records'] of one invocation
MaxBatch == 2
\* longest Items list of a graph store query response (SpecGraph)
MaxItems == 3

\* ------------------------------------------------------- values and inputs
\* Python values that the code reads with dict.get or computes with: each is
\* a tag and an integer.  Identifiers (userId, cardHash, relatedNodeId) are
\* strings, "absent" standing for a missing key.
None == [type |-> "None", val |-> 0]
Bool(b) == [type |-> "bool", val |-> IF b THEN 1 ELSE 0]
PyInt(v) == [type |-> "int", val |-> v]
\* json.loads yields Python floats for the coordinates; the profile store
\* (boto3 resource API) yields decimal.Decimal for every number attribute.
Float(v) == [type |-> "float", val |-> v]
Dec(v) == [type |-> "Decimal", val |-> v]
\* an ISO-8601 string; val is the instant in hours since a Monday 00:00
Iso(v) == [type |-> "str", val |-> v]
\* a string datetime.fromisoformat rejects
Garbage == [type |-> "str", val |-> -1]
Absent == "absent"

\* Python truthiness of a number, a bool or None
Truthy(x) == x.type # "None" /\ x.val # 0

Users == {"u1", "u2"}
Cards == {"c1", "c2"}
Latitudes == {0, 1}
Longitudes == {1}
Timestamps == {10, 35}

\* a decoded payload as the producer sends it (the engineered keys missing)
Txn(u, c, lat, lon, ts) ==
    [transactionId |-> 0, userId |-> u, cardHash |-> c,
     amount |-> Float(45), latitude |-> Float(lat), longitude |-> Float(lon),
     timestamp |-> ts,
     hour_of_day |-> None, day_of_week |-> None,
     transaction_count_30min |-> None, geo_distance_anomaly |-> None]

WellFormed == {Txn(u, c, lat, lon, Iso(ts)) :
                 u \in Users, c \in Cards, lat \in Latitudes,
                 lon \in Longitudes, ts \in Timestamps}
\* malformed payloads: the timestamp key missing, the timestamp unparsable
Malformed == {Txn("u1", "c1", 1, 1, None), Txn("u1", "c1", 1, 1, Garbage)}
\* record['kinesis']['data'] that base64/json cannot decode to a payload
Undecodable == Txn(Absent, Absent, 0, 0, None)
Records == WellFormed \cup Malformed \cup {Undecodable}

NoPayload == Undecodable

\* ----------------------------------------------------------- profile store
\* an item of UserProfileTable; None for an attribute the item does not hold.
\* EmptyProfile is the {} that get_user_profile returns for a missing item.
Profile(lat, lon, ts, cnt) ==
    [last_latitude |-> lat, last_longitude |-> lon,
     last_transaction_time |-> ts, transaction_count_30min |-> cnt]
EmptyProfile == Profile(None, None, None, None)

\* ------------------------------------------------------------- graph store
\* UserGraphTable: items keyed by nodeId.  u2 and c2 have an edge to a node
\* marked fraudulent, u1 and c1 have none.
Edge(id, fraud) == [relatedNodeId |-> id, isFraudulent |-> fraud]
UserGraphTable ==
    [node \in Users \cup Cards |->
        CASE node = "u1" -> <<Edge("m1", Bool(FALSE))>>
          [] node = "u2" -> <<Edge("m1", Bool(FALSE)), Edge("m9", Bool(TRUE))>>
          [] node = "c1" -> << >>
          [] node = "c2" -> <<Edge("m9", Bool(TRUE))>>]

\* an item: relatedNodeId may be missing; isFraudulent may be missing (or the
\* whole relatedNodeProperties map may be), false or true
Items == {Edge(id, f) : id \in {Absent, "m1"},
                        f \in {None, Bool(FALSE), Bool(TRUE)}}
ItemLists(k) == UNION {[1..m -> Items] : m \in 0..k}
QueryError == [error |-> TRUE, Items |-> << >>]
QueryOk(items) == [error |-> FALSE, Items |-> items]
NoResponse == QueryOk(<< >>)

\* graph_queries.py 33-40: the for loop over the items.  The first item with
\* a truthy isFraudulent ends the loop: the print of line 36 reads
\* item['relatedNodeId'], which raises KeyError when the key is missing.
RECURSIVE scan_items(_)
scan_items(items) ==
    IF items = << >> THEN "False"
    ELSE IF Truthy(Head(items).isFraudulent)
         THEN IF Head(items).relatedNodeId = Absent THEN "KeyError" ELSE "True"
         ELSE scan_items(Tail(items))

is_linked_to_fraud_failclosed(resp) ==
    IF resp.error THEN TRUE
    ELSE scan_items(resp.Items) = "True"

\* graph_queries.py 11-45: the try block (query, loop) and the except clause
\* that turns every exception into False
is_linked_to_fraud(resp) ==
    IF resp.error THEN FALSE
    ELSE LET r == scan_items(resp.Items)
         IN  IF r = "KeyError" THEN FALSE ELSE r = "True"

\* --------------------------------------------------------- model loading
\* lambda_function.py 32-40: both joblib.load calls sit in one try block, and
\* the except clause sets both globals to None.
LoadModels(champion_ok, challenger_ok) ==
    IF champion_ok /\ challenger_ok
    THEN [champion |-> "model_v1", challenger |-> "model_v2"]
    ELSE [champion |-> "None", challenger |-> "None"]

ModelsMissing_never(champion, challenger) == FALSE

\* lambda_function.py 89: not champion_model or not challenger_model
ModelsMissing(champion, challenger) ==
    champion = "None" \/ challenger = "None"

\* --------------------------------------------------------- profile client
update_item_merge(table, p) ==
    [table EXCEPT ![p.userId] =
        Profile(Dec(p.latitude.val), Dec(p.longitude.val),
                IF @.last_transaction_time # None
                   /\ @.last_transaction_time.val > p.timestamp.val
                THEN @.last_transaction_time ELSE p.timestamp,
                @.transaction_count_30min)]

get_user_profile_stale(table, user_id, read_fails) ==
    EmptyProfile

\* lambda_function.py 42-49: the item of the user, {} when there is none and
\* {} when get_item raises
get_user_profile(table, user_id, read_fails) ==
    IF read_fails THEN EmptyProfile ELSE table[user_id]

update_item_if_newer(table, p) ==
    IF table[p.userId].last_transaction_time # None
       /\ table[p.userId].last_transaction_time.val > p.timestamp.val
    THEN table
    ELSE [table EXCEPT ![p.userId] =
            Profile(Dec(p.latitude.val), Dec(p.longitude.val), p.timestamp,
                    @.transaction_count_30min)]

\* lambda_function.py 136-144: SET of the three attributes (an upsert); the
\* coordinates are stored as Decimal(str(.)), transaction_count_30min is not
\* part of the update expression
update_item(table, p) ==
    [table EXCEPT ![p.userId] =
        Profile(Dec(p.latitude.val), Dec(p.longitude.val), p.timestamp,
                @.transaction_count_30min)]

\* ------------------------------------------------------ feature engineering
TypeError == [type |-> "TypeError", val |-> 0]
IsNumber(x) == x.type \in {"int", "float", "Decimal", "sqrt"}

\* Python's a - b: float and Decimal do not mix, int adapts to the other side
PySub(a, b) ==
    IF ~IsNumber(a) \/ ~IsNumber(b) THEN TypeError
    ELSE IF {a.type, b.type} = {"float", "Decimal"} THEN TypeError
    ELSE IF a.type = "int" THEN [type |-> b.type, val |-> a.val - b.val]
    ELSE [type |-> a.type, val |-> a.val - b.val]
\* x ** 2
PySquare(x) == IF IsNumber(x) THEN [type |-> x.type, val |-> x.val * x.val] ELSE TypeError
\* a + b of two values of the same type
PyAdd(a, b) ==
    IF IsNumber(a) /\ IsNumber(b) /\ a.type = b.type
    THEN [type |-> a.type, val |-> a.val + b.val] ELSE TypeError
\* x ** 0.5: Decimal ** float raises; the float root of val is kept as val
\* under the tag "sqrt"
PySqrt(x) ==
    IF x.type \in {"int", "float"} THEN [type |-> "sqrt", val |-> x.val] ELSE TypeError

\* lambda_function.py 64-69
geo_distance(transaction, user_profile) ==
    LET last_lat == user_profile.last_latitude
        last_lon == user_profile.last_longitude
    IN  IF Truthy(last_lat) /\ Truthy(last_lon)
        THEN PySqrt(PyAdd(PySquare(PySub(transaction.latitude, last_lat)),
                          PySquare(PySub(transaction.longitude, last_lon))))
        ELSE PyInt(0)

feature_engineering_lenient(transaction, user_profile) ==
    LET ts == IF transaction.timestamp.type = "str" /\ transaction.timestamp.val >= 0
              THEN transaction.timestamp.val ELSE 0
        t1 == [transaction EXCEPT
                 !.hour_of_day = PyInt(ts % 24),
                 !.day_of_week = PyInt((ts \div 24) % 7),
                 !.transaction_count_30min =
                     IF user_profile.transaction_count_30min = None
                     THEN PyInt(0) ELSE user_profile.transaction_count_30min]
        geo == geo_distance(t1, user_profile)
    IN  IF geo = TypeError THEN [exc |-> "TypeError", transaction |-> t1]
        ELSE [exc |-> "none",
              transaction |-> [t1 EXCEPT !.geo_distance_anomaly = geo]]

feature_engineering_nodefault(transaction, user_profile) ==
    IF transaction.timestamp = None
    THEN [exc |-> "KeyError", transaction |-> transaction]
    ELSE IF transaction.timestamp = Garbage
    THEN [exc |-> "ValueError", transaction |-> transaction]
    ELSE LET ts == transaction.timestamp.val
             t1 == [transaction EXCEPT
                      !.hour_of_day = PyInt(ts % 24),
                      !.day_of_week = PyInt((ts \div 24) % 7),
                      !.transaction_count_30min = user_profile.transaction_count_30min]
             geo == geo_distance(t1, user_profile)
         IN  IF geo = TypeError THEN [exc |-> "TypeError", transaction |-> t1]
             ELSE [exc |-> "none",
                   transaction |-> [t1 EXCEPT !.geo_distance_anomaly = geo]]

\* lambda_function.py 51-71: the dict it is given is updated in place and
\* returned; exc names the exception that leaves the function, transaction
\* is the dict as the function leaves it
feature_engineering(transaction, user_profile) ==
    IF transaction.timestamp = None
    THEN [exc |-> "KeyError", transaction |-> transaction]
    ELSE IF transaction.timestamp = Garbage
    THEN [exc |-> "ValueError", transaction |-> transaction]
    ELSE LET ts == transaction.timestamp.val
             t1 == [transaction EXCEPT
                      !.hour_of_day = PyInt(ts % 24),
                      !.day_of_week = PyInt((ts \div 24) % 7),
                      !.transaction_count_30min =
                          IF user_profile.transaction_count_30min = None
                          THEN PyInt(0) ELSE user_profile.transaction_count_30min]
             geo == geo_distance(t1, user_profile)
         IN  IF geo = TypeError THEN [exc |-> "TypeError", transaction |-> t1]
             ELSE [exc |-> "none",
                   transaction |-> [t1 EXCEPT !.geo_distance_anomaly = geo]]

\* ------------------------------------------------------------------ scoring
\* random.random() in hundredths, around the routing weight
Draws == {89, 90}
\* predict_proba(...)[:, 1][0] in hundredths, around the decision threshold
Probs == {10, 80, 81}
ChampionWeight == 90
Threshold == 80

make_prediction_ge(draw_, predict_) ==
    LET model == IF draw_ < ChampionWeight THEN "champion" ELSE "challenger"
        model_version_ == IF draw_ < ChampionWeight THEN "v1_champion" ELSE "v2_challenger"
        prediction_proba == predict_[model]
    IN  [is_fraud |-> prediction_proba >= Threshold,
         prediction_proba |-> prediction_proba,
         model_version |-> model_version_]

make_prediction_le(draw_, predict_) ==
    LET model == IF draw_ <= ChampionWeight THEN "champion" ELSE "challenger"
        model_version_ == IF draw_ <= ChampionWeight THEN "v1_champion" ELSE "v2_challenger"
        prediction_proba == predict_[model]
    IN  [is_fraud |-> prediction_proba > Threshold,
         prediction_proba |-> prediction_proba,
         model_version |-> model_version_]

\* lambda_function.py 73-85; predict gives the probability each model returns
make_prediction(draw, predict) ==
    LET model == IF draw < ChampionWeight THEN "champion" ELSE "challenger"
        model_version == IF draw < ChampionWeight THEN "v1_champion" ELSE "v2_challenger"
        prediction_proba == predict[model]
    IN  [is_fraud |-> prediction_proba > Threshold,
         prediction_proba |-> prediction_proba,
         model_version |-> model_version]

Models == {"champion", "challenger"}
\* predict before the models were asked
NoPredict == [m \in Models |-> -1]

\* ------------------------------------------------------------- case message
\* lambda_function.py 125: json.dumps(payload, default=str).  The document
\* has the keys the dict holds when the call is made, each with its value.
IdKeys == {"userId", "cardHash"}
ValueKeys == {"amount", "latitude", "longitude", "timestamp", "hour_of_day",
              "day_of_week", "transaction_count_30min", "geo_distance_anomaly"}
json_dumps(p) ==
    LET keys == {"transactionId"}
                  \cup {k \in IdKeys : p[k] # Absent}
                  \cup {k \in ValueKeys : p[k] # None}
    IN  [k \in keys |-> p[k]]
\* no send_message call made
NoMessage == [k \in {} |-> None]

\* ----------------------------------------------------------------- decision
fuse_and(is_graph_fraud_, is_ml_fraud_) == is_graph_fraud_ /\ is_ml_fraud_

\* lambda_function.py 115
fuse(is_graph_fraud_, is_ml_fraud_) == is_graph_fraud_ \/ is_ml_fraud_

\* -------------------------------------------------------------------- state
VARIABLES
    champion_model,            \* module globals set by the model loading
    challenger_model,
    user_profile_table,        \* UserProfileTable: userId -> item
    n,                         \* len(event['Records'])
    idx,                       \* position of the for loop, 0 before the first record
    pc,                        \* statement lambda_handler is at
    statusCode,                \* statusCode of the returned dict, 0 before the return
    payload,                   \* locals of the loop body
    user_profile,
    response,                  \* what table.query gave is_linked_to_fraud
    is_graph_fraud,
    draw,                      \* what random.random() gave make_prediction
    is_ml_fraud,
    confidence,
    model_version,
    final_decision_is_fraud,
    dispatch,                  \* calls of sqs.send_message, sns.publish, update_item for the record
    profile_read,              \* how get_item ended for the record: "none", "ok", "error"
    predict,                   \* what predict_proba of each model gives for the record
    MessageBody,               \* MessageBody of the sqs.send_message call of the record
    visits,                    \* per record: times the loop body was entered
    status,                    \* per record: stage of section 4.7 it is in
    decided,                   \* per record: what line 117 printed for it
    other                      \* a second invocation of lambda_handler running concurrently

vars == <<champion_model, challenger_model, user_profile_table, n, idx, pc,
          statusCode, payload, user_profile, response, is_graph_fraud, draw,
          is_ml_fraud, confidence, model_version, final_decision_is_fraud,
          dispatch, profile_read, predict, MessageBody, visits, status,
          decided, other>>

globals == <<champion_model, challenger_model, n, other>>
scoring == <<draw, predict, is_ml_fraud, confidence, model_version>>
observed == <<profile_read, MessageBody>>

NoDispatch == [case |-> "none", alert |-> "none", update |-> "none"]

\* the second invocation: where it stands, its payload, the profile it read
\* and how its update_item ended; idle when there is no second invocation
NoOther == [pc |-> "idle", payload |-> NoPayload, user_profile |-> EmptyProfile,
            update |-> "none"]

Init ==
    /\ \E champion_ok \in BOOLEAN, challenger_ok \in BOOLEAN :
          /\ champion_model = LoadModels(champion_ok, challenger_ok).champion
          /\ challenger_model = LoadModels(champion_ok, challenger_ok).challenger
    /\ user_profile_table = [u \in Users |-> EmptyProfile]
    /\ n \in 0..MaxBatch
    /\ idx = 0
    /\ pc = "start"
    /\ statusCode = 0
    /\ payload = NoPayload
    /\ user_profile = EmptyProfile
    /\ response = NoResponse
    /\ is_graph_fraud = FALSE
    /\ draw = -1
    /\ is_ml_fraud = FALSE
    /\ confidence = -1
    /\ model_version = "unset"
    /\ final_decision_is_fraud = FALSE
    /\ dispatch = NoDispatch
    /\ profile_read = "none"
    /\ predict = NoPredict
    /\ MessageBody = NoMessage
    /\ visits = [i \in 1..MaxBatch |-> 0]
    /\ status = [i \in 1..MaxBatch |-> "Pending"]
    /\ decided = [i \in 1..MaxBatch |-> "none"]
    /\ other = NoOther

\* ------------------------------------------------------------ lambda_handler
ExceptAbort(i) ==
    /\ status' = [status EXCEPT ![i] = "Failed"]
    /\ pc' = "returned"

ExceptRaise(i) ==
    /\ status' = [status EXCEPT ![i] = "Failed"]
    /\ pc' = "raised"

ExceptResume(i) ==
    /\ status' = [status EXCEPT ![i] = "Failed"]
    /\ pc' = "decide"

\* lambda_function.py 146-148: the except clause of the loop body logs the
\* error and lets the for loop go on
Except(i) ==
    /\ status' = [status EXCEPT ![i] = "Failed"]
    /\ pc' = "fetch"

\* lambda_function.py 89-91: the guard on the loaded models
Start ==
    /\ pc = "start"
    /\ IF ModelsMissing(champion_model, challenger_model)
       THEN pc' = "returned" /\ statusCode' = 500
       ELSE pc' = "fetch" /\ statusCode' = statusCode
    /\ UNCHANGED <<globals, observed, user_profile_table, idx, payload, user_profile,
                   response, is_graph_fraud, scoring, final_decision_is_fraud,
                   dispatch, visits, status, decided>>

\* lambda_function.py 93-97: the for loop takes the next record and decodes it
Fetch ==
    /\ pc = "fetch"
    /\ idx < n
    /\ idx' = idx + 1
    /\ visits' = [visits EXCEPT ![idx + 1] = @ + 1]
    /\ user_profile' = EmptyProfile
    /\ response' = NoResponse
    /\ is_graph_fraud' = FALSE
    /\ draw' = -1
    /\ is_ml_fraud' = FALSE
    /\ confidence' = -1
    /\ model_version' = "unset"
    /\ final_decision_is_fraud' = FALSE
    /\ dispatch' = NoDispatch
    /\ profile_read' = "none"
    /\ predict' = NoPredict
    /\ MessageBody' = NoMessage
    /\ \E record \in Records :
          IF record = Undecodable
          THEN /\ payload' = NoPayload
               /\ Except(idx + 1)
          ELSE /\ payload' = [record EXCEPT !.transactionId = idx + 1]
               /\ status' = [status EXCEPT ![idx + 1] = "Received"]
               /\ pc' = "profile"
    /\ UNCHANGED <<globals, user_profile_table, statusCode, decided>>

\* lambda_function.py 100
GetProfile ==
    /\ pc = "profile"
    /\ \E read_fails \in BOOLEAN :
          /\ user_profile' = get_user_profile(user_profile_table, payload.userId, read_fails)
          /\ profile_read' = IF read_fails THEN "error" ELSE "ok"
    /\ pc' = "features"
    /\ UNCHANGED <<globals, MessageBody, user_profile_table, idx, statusCode, payload,
                   response, is_graph_fraud, scoring, final_decision_is_fraud,
                   dispatch, visits, status, decided>>

\* lambda_function.py 101
Features ==
    /\ pc = "features"
    /\ LET r == feature_engineering(payload, user_profile)
       IN  /\ payload' = r.transaction
           /\ IF r.exc # "none"
              THEN Except(idx)
              ELSE /\ status' = [status EXCEPT ![idx] = "FeaturesBuilt"]
                   /\ pc' = "graph"
    /\ UNCHANGED <<globals, observed, user_profile_table, idx, statusCode, user_profile,
                   response, is_graph_fraud, scoring, final_decision_is_fraud,
                   dispatch, visits, decided>>

\* lambda_function.py 104: is_linked_to_fraud(payload['userId']); the query
\* of graph_queries.py 27-31 gives the items of the node or raises
GraphCheck ==
    /\ pc = "graph"
    /\ \E query_fails \in BOOLEAN :
          LET resp == IF query_fails THEN QueryError
                      ELSE QueryOk(UserGraphTable[payload.userId])
          IN  /\ response' = resp
              /\ is_graph_fraud' = is_linked_to_fraud(resp)
    /\ status' = [status EXCEPT ![idx] = "GraphChecked"]
    /\ pc' = "score"
    /\ UNCHANGED <<globals, observed, user_profile_table, idx, statusCode, payload,
                   user_profile, scoring, final_decision_is_fraud, dispatch,
                   visits, decided>>

\* lambda_function.py 107-111: make_prediction, or predict_proba raising
Score ==
    /\ pc = "score"
    /\ \/ \E d \in Draws, p \in [Models -> Probs] :
             LET r == make_prediction(d, p)
             IN  /\ draw' = d
                 /\ predict' = p
                 /\ is_ml_fraud' = r.is_fraud
                 /\ confidence' = r.prediction_proba
                 /\ model_version' = r.model_version
                 /\ status' = [status EXCEPT ![idx] = "Scored"]
                 /\ pc' = "decide"
       \/ \E d \in Draws :
             /\ draw' = d
             /\ UNCHANGED <<predict, is_ml_fraud, confidence, model_version>>
             /\ Except(idx)
    /\ UNCHANGED <<globals, observed, user_profile_table, idx, statusCode, payload,
                   user_profile, response, is_graph_fraud,
                   final_decision_is_fraud, dispatch, visits, decided>>

Decide_inverted ==
    /\ pc = "decide"
    /\ LET d == fuse(is_graph_fraud, is_ml_fraud)
       IN  /\ final_decision_is_fraud' = d
           /\ decided' = [decided EXCEPT ![idx] = IF d THEN "FRAUD" ELSE "LEGITIMATE"]
           /\ pc' = IF d THEN "update" ELSE "case"
    /\ status' = [status EXCEPT ![idx] = "Decided"]
    /\ UNCHANGED <<globals, observed, user_profile_table, idx, statusCode, payload,
                   user_profile, response, is_graph_fraud, scoring, dispatch,
                   visits>>

\* lambda_function.py 115-120
Decide ==
    /\ pc = "decide"
    /\ LET d == fuse(is_graph_fraud, is_ml_fraud)
       IN  /\ final_decision_is_fraud' = d
           /\ decided' = [decided EXCEPT ![idx] = IF d THEN "FRAUD" ELSE "LEGITIMATE"]
           /\ pc' = IF d THEN "case" ELSE "update"
    /\ status' = [status EXCEPT ![idx] = "Decided"]
    /\ UNCHANGED <<globals, observed, user_profile_table, idx, statusCode, payload,
                   user_profile, response, is_graph_fraud, scoring, dispatch,
                   visits>>

\* lambda_function.py 123-126: sqs.send_message
SendCase ==
    /\ pc = "case"
    /\ MessageBody' = json_dumps(payload)
    /\ \/ /\ dispatch' = [dispatch EXCEPT !.case = "ok"]
          /\ pc' = "alert"
          /\ UNCHANGED status
       \/ /\ dispatch' = [dispatch EXCEPT !.case = "error"]
          /\ Except(idx)
    /\ UNCHANGED <<globals, profile_read, user_profile_table, idx, statusCode, payload,
                   user_profile, response, is_graph_fraud, scoring,
                   final_decision_is_fraud, visits, decided>>

\* lambda_function.py 128-132: sns.publish
SendAlert ==
    /\ pc = "alert"
    /\ \/ /\ dispatch' = [dispatch EXCEPT !.alert = "ok"]
          /\ status' = [status EXCEPT ![idx] = "Dispatched"]
          /\ pc' = "fetch"
       \/ /\ dispatch' = [dispatch EXCEPT !.alert = "error"]
          /\ Except(idx)
    /\ UNCHANGED <<globals, observed, user_profile_table, idx, statusCode, payload,
                   user_profile, response, is_graph_fraud, scoring,
                   final_decision_is_fraud, visits, decided>>

\* lambda_function.py 136-144: user_profile_table.update_item
UpdateProfile ==
    /\ pc = "update"
    /\ \/ /\ dispatch' = [dispatch EXCEPT !.update = "ok"]
          /\ user_profile_table' = update_item(user_profile_table, payload)
          /\ status' = [status EXCEPT ![idx] = "Dispatched"]
          /\ pc' = "fetch"
       \/ /\ dispatch' = [dispatch EXCEPT !.update = "error"]
          /\ UNCHANGED user_profile_table
          /\ Except(idx)
    /\ UNCHANGED <<globals, observed, idx, statusCode, payload, user_profile, response,
                   is_graph_fraud, scoring, final_decision_is_fraud, visits,
                   decided>>

\* lambda_function.py 150: the for loop is exhausted
Return ==
    /\ pc = "fetch"
    /\ idx = n
    /\ pc' = "returned"
    /\ statusCode' = 200
    /\ UNCHANGED <<globals, observed, user_profile_table, idx, payload, user_profile,
                   response, is_graph_fraud, scoring, final_decision_is_fraud,
                   dispatch, visits, status, decided>>

Next ==
    \/ Start
    \/ Fetch
    \/ GetProfile
    \/ Features
    \/ GraphCheck
    \/ Score
    \/ Decide
    \/ SendCase
    \/ SendAlert
    \/ UpdateProfile
    \/ Return

Spec == Init /\ [][Next]_vars

\* lambda_handler as a running program: every statement it reaches completes,
\* each call to an external service returning or raising
SpecLive == Spec /\ WF_vars(Next)

\* ------------------------------------------- is_linked_to_fraud on its own
\* The graph checker applied to every response of the store within MaxItems.
InitGraph ==
    /\ champion_model = "model_v1"
    /\ challenger_model = "model_v2"
    /\ user_profile_table = [u \in Users |-> EmptyProfile]
    /\ n = 0
    /\ idx = 0
    /\ pc = "graph_call"
    /\ statusCode = 0
    /\ payload = NoPayload
    /\ user_profile = EmptyProfile
    /\ response \in {QueryError} \cup {QueryOk(l) : l \in ItemLists(MaxItems)}
    /\ is_graph_fraud = FALSE
    /\ draw = -1
    /\ is_ml_fraud = FALSE
    /\ confidence = -1
    /\ model_version = "unset"
    /\ final_decision_is_fraud = FALSE
    /\ dispatch = NoDispatch
    /\ profile_read = "none"
    /\ predict = NoPredict
    /\ MessageBody = NoMessage
    /\ visits = [i \in 1..MaxBatch |-> 0]
    /\ status = [i \in 1..MaxBatch |-> "Pending"]
    /\ decided = [i \in 1..MaxBatch |-> "none"]
    /\ other = NoOther

GraphCall ==
    /\ pc = "graph_call"
    /\ is_graph_fraud' = is_linked_to_fraud(response)
    /\ pc' = "graph_return"
    /\ UNCHANGED <<globals, observed, user_profile_table, idx, statusCode, payload,
                   user_profile, response, scoring, final_decision_is_fraud,
                   dispatch, visits, status, decided>>

NextGraph == GraphCall

SpecGraph == InitGraph /\ [][NextGraph]_vars

\* ---------------------------------------------------- make_prediction on its own
\* The scoring router applied to every draw and every pair of model outputs
\* of ScoreDraws and ScoreProbs.
ScoreDraws == {0, 89, 90, 99}
ScoreProbs == {0, 79, 80, 81, 100}

InitScore ==
    /\ champion_model = "model_v1"
    /\ challenger_model = "model_v2"
    /\ user_profile_table = [u \in Users |-> EmptyProfile]
    /\ n = 0
    /\ idx = 0
    /\ pc = "score_call"
    /\ statusCode = 0
    /\ payload = NoPayload
    /\ user_profile = EmptyProfile
    /\ response = NoResponse
    /\ is_graph_fraud = FALSE
    /\ draw \in ScoreDraws
    /\ predict \in [Models -> ScoreProbs]
    /\ is_ml_fraud = FALSE
    /\ confidence = -1
    /\ model_version = "unset"
    /\ final_decision_is_fraud = FALSE
    /\ dispatch = NoDispatch
    /\ profile_read = "none"
    /\ MessageBody = NoMessage
    /\ visits = [i \in 1..MaxBatch |-> 0]
    /\ status = [i \in 1..MaxBatch |-> "Pending"]
    /\ decided = [i \in 1..MaxBatch |-> "none"]
    /\ other = NoOther

ScoreCall ==
    /\ pc = "score_call"
    /\ LET r == make_prediction(draw, predict)
       IN  /\ is_ml_fraud' = r.is_fraud
           /\ confidence' = r.prediction_proba
           /\ model_version' = r.model_version
    /\ pc' = "score_return"
    /\ UNCHANGED <<globals, observed, user_profile_table, idx, statusCode,
                   payload, user_profile, response, is_graph_fraud, draw,
                   predict, final_decision_is_fraud, dispatch, visits, status,
                   decided>>

NextScore == ScoreCall

SpecScore == InitScore /\ [][NextScore]_vars

\* ------------------------------------------------ two concurrent invocations
\* lambda_handler running on a batch of one record while a second invocation,
\* in its own execution environment, runs on a record of user u1.  The second
\* invocation steps at the granularity of its calls to the profile store.
invocation == <<idx, pc, statusCode, payload, user_profile, response,
                is_graph_fraud, scoring, final_decision_is_fraud, dispatch,
                observed, visits, status, decided>>

InitConcurrent ==
    /\ champion_model = LoadModels(TRUE, TRUE).champion
    /\ challenger_model = LoadModels(TRUE, TRUE).challenger
    /\ user_profile_table = [u \in Users |-> EmptyProfile]
    /\ n = 1
    /\ idx = 0
    /\ pc = "start"
    /\ statusCode = 0
    /\ payload = NoPayload
    /\ user_profile = EmptyProfile
    /\ response = NoResponse
    /\ is_graph_fraud = FALSE
    /\ draw = -1
    /\ is_ml_fraud = FALSE
    /\ confidence = -1
    /\ model_version = "unset"
    /\ final_decision_is_fraud = FALSE
    /\ dispatch = NoDispatch
    /\ profile_read = "none"
    /\ predict = NoPredict
    /\ MessageBody = NoMessage
    /\ visits = [i \in 1..MaxBatch |-> 0]
    /\ status = [i \in 1..MaxBatch |-> "Pending"]
    /\ decided = [i \in 1..MaxBatch |-> "none"]
    /\ \E t \in {w \in WellFormed : w.userId = "u1" /\ w.cardHash = "c1"} :
          other = [NoOther EXCEPT !.pc = "profile",
                                  !.payload = [t EXCEPT !.transactionId = MaxBatch + 1]]

\* lambda_function.py 100 in the second invocation
OtherGetProfile ==
    /\ other.pc = "profile"
    /\ \E read_fails \in BOOLEAN :
          other' = [other EXCEPT
                      !.user_profile = get_user_profile(user_profile_table,
                                                        other.payload.userId, read_fails),
                      !.pc = "features"]
    /\ UNCHANGED <<champion_model, challenger_model, n, user_profile_table, invocation>>

\* lambda_function.py 101-120 in the second invocation: the features, the
\* graph check, the scoring and the decision, none of which touches the
\* profile store; an exception ends the record at 146-148
OtherDecide ==
    /\ other.pc = "features"
    /\ LET r == feature_engineering(other.payload, other.user_profile)
       IN  IF r.exc # "none"
           THEN other' = [other EXCEPT !.payload = r.transaction, !.pc = "failed"]
           ELSE \/ \E query_fails \in BOOLEAN, d \in Draws, p \in [Models -> Probs] :
                      LET resp == IF query_fails THEN QueryError
                                  ELSE QueryOk(UserGraphTable[other.payload.userId])
                          fraud == fuse(is_linked_to_fraud(resp), make_prediction(d, p).is_fraud)
                      IN  other' = [other EXCEPT
                                      !.payload = r.transaction,
                                      !.pc = IF fraud THEN "fraud" ELSE "update"]
                \/ other' = [other EXCEPT !.payload = r.transaction, !.pc = "failed"]
    /\ UNCHANGED <<champion_model, challenger_model, n, user_profile_table, invocation>>

\* lambda_function.py 136-144 in the second invocation
OtherUpdateProfile ==
    /\ other.pc = "update"
    /\ \/ /\ user_profile_table' = update_item(user_profile_table, other.payload)
          /\ other' = [other EXCEPT !.update = "ok", !.pc = "done"]
       \/ /\ UNCHANGED user_profile_table
          /\ other' = [other EXCEPT !.update = "error", !.pc = "failed"]
    /\ UNCHANGED <<champion_model, challenger_model, n, invocation>>

NextConcurrent ==
    \/ Start
    \/ Fetch
    \/ GetProfile
    \/ Features
    \/ GraphCheck
    \/ Score
    \/ Decide
    \/ SendCase
    \/ SendAlert
    \/ UpdateProfile
    \/ Return
    \/ OtherGetProfile
    \/ OtherDecide
    \/ OtherUpdateProfile

SpecConcurrent == InitConcurrent /\ [][NextConcurrent]_vars

\* ----------------------------------------------------------------- helpers
ModelsLoaded == champion_model # "None" /\ challenger_model # "None"
\* the loop body is over for the record under the loop variable
RecordOver == idx >= 1 /\ pc \in {"fetch", "returned"}
\* the node has an edge to a node marked fraudulent in UserGraphTable
Linked(node) ==
    \E k \in 1..Len(UserGraphTable[node]) :
        Truthy(UserGraphTable[node][k].isFraudulent)
ValidTimestamp(t) == t.type = "str" /\ t.val >= 0
\* predict_proba raised for the record: the draw was made, no version came back
ScoringRaised == draw # -1 /\ model_version = "unset"
DeliveryFailed == "error" \in {dispatch.case, dispatch.alert, dispatch.update}

\* ------------------------------------------------------------------ claims

\* C1: for every record that reaches the decision stage, the final decision
\* is fraud exactly when the graph flag is true or the model's isFraud is true.
C1_DecisionIsOr ==
    (idx >= 1 /\ decided[idx] # "none") =>
        /\ final_decision_is_fraud = (is_graph_fraud \/ is_ml_fraud)
        /\ (decided[idx] = "FRAUD") = (is_graph_fraud \/ is_ml_fraud)

C1_Witness ==
    /\ idx >= 1
    /\ decided[idx] = "FRAUD"
    /\ is_graph_fraud
    /\ ~is_ml_fraud

\* C2: a record decided fraud has, when its loop body is over, both a Case
\* enqueue attempt (sqs.send_message) and an Alert emit attempt (sns.publish),
\* also when one of the two calls raised.
C2_BothAttempted ==
    (RecordOver /\ decided[idx] = "FRAUD") =>
        (dispatch.case # "none" /\ dispatch.alert # "none")

\* C3: one record's failure never aborts the batch: with the models loaded
\* the handler returns only after every record of the batch was taken up and
\* ended, and a step that fails a record changes neither the stage nor the
\* decision of any other record nor the profile store the other records read.
C3_FailureIsolated ==
    /\ [](  (pc = "returned" /\ ModelsLoaded) =>
               (idx = n /\ \A i \in 1..n :
                   visits[i] = 1 /\ status[i] \in {"Dispatched", "Failed"}))
    /\ [][ /\ \A j \in 1..MaxBatch :
                j # idx' => (status'[j] = status[j] /\ decided'[j] = decided[j])
           /\ (idx' >= 1 /\ status' # status /\ status'[idx'] = "Failed") =>
                (user_profile_table' = user_profile_table /\ pc' = "fetch")
         ]_vars

C3_Witness ==
    /\ pc = "returned"
    /\ n = 2
    /\ status[1] = "Failed"
    /\ status[2] = "Dispatched"

\* C4: when the graph store query raises, is_linked_to_fraud gives false and
\* does not raise: the graph flag of the record is false, the record goes on
\* to scoring (it fails only if scoring or a later stage fails), and its
\* decision, once made, is the model's alone.
C4_GraphFailOpen ==
    (idx >= 1 /\ response.error) =>
        /\ ~is_graph_fraud
        /\ status[idx] \in {"GraphChecked", "Scored", "Decided", "Dispatched", "Failed"}
        /\ (status[idx] = "Failed") => (draw # -1)
        /\ (decided[idx] # "none") => (final_decision_is_fraud = is_ml_fraud)

C4_Witness ==
    /\ idx >= 1
    /\ response.error
    /\ payload.userId = "u2"
    /\ decided[idx] = "LEGITIMATE"
    /\ status[idx] = "Dispatched"

\* C5: when the query succeeds, is_linked_to_fraud gives true exactly when at
\* least one returned item carries a truthy isFraudulent, with or without a
\* relatedNodeId on that item.
C5_AnyFraudulentItem ==
    (pc = "graph_return" /\ ~response.error) =>
        (is_graph_fraud =
            \E k \in 1..Len(response.Items) : Truthy(response.Items[k].isFraudulent))

\* C6: a transaction whose cardHash or userId is linked to a fraudulent node
\* of the graph store, the store answering, gets the graph flag and a final
\* decision of fraud whatever the model says.
C6_LinkedEntityIsFraud ==
    (/\ idx >= 1
     /\ decided[idx] # "none"
     /\ ~response.error
     /\ (Linked(payload.cardHash) \/ Linked(payload.userId))) =>
        (is_graph_fraud /\ decided[idx] = "FRAUD")

C8_FailedBeforeDecision ==
    /\ (idx >= 1 /\ pc \notin {"profile", "features"} /\ ~ValidTimestamp(payload.timestamp)) =>
          (status[idx] = "Failed" /\ decided[idx] = "none")
    /\ (idx >= 1 /\ ScoringRaised) =>
          (status[idx] = "Failed" /\ decided[idx] = "none")
    /\ (idx >= 1 /\ status[idx] = "Failed" /\ decided[idx] = "none") =>
          /\ dispatch = NoDispatch
          /\ pc \in {"fetch", "returned"}
          /\ (pc = "returned") => (idx = n)

C8_Witness ==
    /\ idx >= 1
    /\ idx < n
    /\ payload.timestamp = None
    /\ payload.userId # Absent
    /\ status[idx] = "Failed"
    /\ pc = "fetch"

\* C9: each well-formed record whose dependencies answer (no scoring or
\* delivery error) is taken up exactly once and ends with exactly one
\* decision and its dispatch; no record is taken up twice.
C9_ExactlyOneDecision ==
    /\ \A i \in 1..MaxBatch : visits[i] <= 1
    /\ (/\ RecordOver
        /\ ValidTimestamp(payload.timestamp)
        /\ ~ScoringRaised
        /\ ~DeliveryFailed) =>
          /\ visits[idx] = 1
          /\ decided[idx] # "none"
          /\ status[idx] = "Dispatched"

\* C10: once a record has a decision, a failure of the case queue, of the
\* notification or of the profile write leaves the decision as it is and the
\* record ends as Dispatched, not as Failed.
C10_DeliveryFailureStillDispatched ==
    (RecordOver /\ decided[idx] # "none" /\ DeliveryFailed) =>
        /\ (decided[idx] = "FRAUD") = final_decision_is_fraud
        /\ status[idx] = "Dispatched"

\* C11: after a record is decided legitimate and update_item succeeds, the
\* profile of the record's userId holds the transaction's latitude, longitude
\* and timestamp, whether or not the user had a profile and whether or not
\* the stored timestamp was newer.
C11_ProfileHoldsTransaction ==
    (RecordOver /\ dispatch.update = "ok") =>
        /\ decided[idx] = "LEGITIMATE"
        /\ user_profile_table[payload.userId].last_latitude = Dec(payload.latitude.val)
        /\ user_profile_table[payload.userId].last_longitude = Dec(payload.longitude.val)
        /\ user_profile_table[payload.userId].last_transaction_time = payload.timestamp

\* a legitimate record older than the stored time of its user was written
C11_Witness ==
    /\ RecordOver
    /\ dispatch.update = "ok"
    /\ profile_read = "ok"
    /\ user_profile.last_transaction_time = Iso(35)
    /\ payload.timestamp = Iso(10)
    /\ user_profile_table[payload.userId].last_transaction_time = Iso(10)

\* C12: the dispatch calls of a record match its decision and exclude each
\* other: update_item is called only for a record decided legitimate, the
\* case and the alert only for a record decided fraud, never both kinds for
\* one record; the profile store changes only in a step that dispatches a
\* record decided legitimate, and only in the item of that record's userId.
C12_DispatchMatchesDecision ==
    /\ []( /\ (dispatch.update # "none") =>
                 (/\ idx >= 1
                  /\ decided[idx] = "LEGITIMATE"
                  /\ dispatch.case = "none"
                  /\ dispatch.alert = "none")
           /\ (dispatch.case # "none" \/ dispatch.alert # "none") =>
                 (/\ idx >= 1
                  /\ decided[idx] = "FRAUD"
                  /\ dispatch.update = "none") )
    /\ [][ (user_profile_table' # user_profile_table) =>
              /\ idx' = idx
              /\ decided[idx] = "LEGITIMATE"
              /\ status'[idx] = "Dispatched"
              /\ \A u \in Users \ {payload.userId} :
                    user_profile_table'[u] = user_profile_table[u]
         ]_vars

C12_Witness ==
    /\ n = 2
    /\ pc = "returned"
    /\ decided[1] = "LEGITIMATE"
    /\ status[1] = "Dispatched"
    /\ decided[2] = "FRAUD"
    /\ dispatch.case = "ok"
    /\ dispatch.alert = "ok"
    /\ payload.userId = "u2"
    /\ user_profile_table["u2"] = EmptyProfile
    /\ user_profile_table["u1"] # EmptyProfile

\* C13: a profile read that fails does not abort the record: get_user_profile
\* gives the empty profile, the features of a well-formed record are those of
\* a user without history (geo_distance_anomaly 0, transaction_count_30min 0)
\* and the record goes on to the graph check, scoring, decision and dispatch
\* (it fails only if scoring or a delivery call raises).
C13_ReadFailureIsNoHistory ==
    (idx >= 1 /\ profile_read = "error") =>
        /\ user_profile = EmptyProfile
        /\ (pc # "features" /\ ValidTimestamp(payload.timestamp)) =>
              /\ payload.geo_distance_anomaly = PyInt(0)
              /\ payload.transaction_count_30min = PyInt(0)
              /\ status[idx] \in {"FeaturesBuilt", "GraphChecked", "Scored",
                                  "Decided", "Dispatched", "Failed"}
              /\ (status[idx] = "Failed") => (ScoringRaised \/ DeliveryFailed)

\* the read failed for a user whose stored profile has coordinates, and the
\* record was decided and dispatched
C13_Witness ==
    /\ idx >= 1
    /\ profile_read = "error"
    /\ user_profile_table[payload.userId].last_latitude = Dec(1)
    /\ payload.latitude = Float(0)
    /\ decided[idx] = "FRAUD"
    /\ status[idx] = "Dispatched"

\* C14: in every reachable state of the profile store the four attributes of
\* a user's profile (last_latitude, last_longitude, last_transaction_time,
\* transaction_count_30min) are either all absent or all present.
C14_ProfileAllOrNothing ==
    \A u \in Users :
        LET present == {a \in {"last_latitude", "last_longitude",
                                "last_transaction_time", "transaction_count_30min"} :
                          user_profile_table[u][a] # None}
        IN  Cardinality(present) \in {0, 4}

\* C15: feature_engineering leaves the transaction it is given unchanged (no
\* key added or overwritten): the payload of the record keeps the keys it was
\* received with, and the case message built from it has no engineered key.
EngineeredKeys == {"hour_of_day", "day_of_week", "transaction_count_30min",
                   "geo_distance_anomaly"}
C15_TransactionUnchanged ==
    /\ \A k \in EngineeredKeys : payload[k] = None
    /\ (dispatch.case # "none") => (DOMAIN MessageBody \cap EngineeredKeys = {})

\* C16: once feature_engineering has run on a well-formed record,
\* geo_distance_anomaly is 0 when the profile read is absent, and otherwise
\* the Euclidean distance between the transaction's coordinates and the
\* profile's last coordinates: a number, never negative, and zero only when
\* the coordinates are equal, also when a stored coordinate is 0.
C16_GeoDistance ==
    (/\ idx >= 1
     /\ profile_read # "none"
     /\ pc # "features"
     /\ ValidTimestamp(payload.timestamp)) =>
        LET geo == payload.geo_distance_anomaly
            last_lat == user_profile.last_latitude
            last_lon == user_profile.last_longitude
            dlat == payload.latitude.val - last_lat.val
            dlon == payload.longitude.val - last_lon.val
        IN  IF last_lat = None \/ last_lon = None
            THEN geo = PyInt(0)
            ELSE /\ IsNumber(geo)
                 /\ geo.val >= 0
                 /\ geo.val = dlat * dlat + dlon * dlon
                 /\ (geo.val = 0) <=> (dlat = 0 /\ dlon = 0)

\* C17: the case message enqueued for a fraud decision carries the full
\* transaction payload and the decision metadata of the record (isFraud,
\* fraudProbability, modelVersion, graphFlag).
TransactionKeys == {"transactionId", "userId", "cardHash", "amount", "latitude",
                    "longitude", "timestamp"}
DecisionKeys == {"isFraud", "fraudProbability", "modelVersion", "graphFlag"}
C17_CaseCarriesDecision ==
    (idx >= 1 /\ dispatch.case = "ok") =>
        /\ decided[idx] = "FRAUD"
        /\ TransactionKeys \subseteq DOMAIN MessageBody
        /\ \A k \in TransactionKeys : MessageBody[k] = payload[k]
        /\ DecisionKeys \subseteq DOMAIN MessageBody

\* the model make_prediction reports to have used
ReportedModel == IF model_version = "v1_champion" THEN "champion" ELSE "challenger"

\* C18: make_prediction reports isFraud exactly when the probability that
\* the selected model returned is strictly greater than 0.80; a probability
\* of exactly 0.80 is not fraud.
C18_StrictThreshold ==
    (pc = "score_return") =>
        /\ confidence = predict[ReportedModel]
        /\ is_ml_fraud = (predict[ReportedModel] > 80)

C18_Witness ==
    /\ pc = "score_return"
    /\ confidence = 80
    /\ ~is_ml_fraud

\* C19: make_prediction selects the champion exactly when its draw is below
\* 0.90 and the challenger for every other draw, scores with the model it
\* selected and reports that model's version.
C19_ChampionBelowWeight ==
    (pc = "score_return") =>
        /\ (model_version = "v1_champion") = (draw < 90)
        /\ (model_version = "v2_challenger") = (draw >= 90)
        /\ confidence = predict[IF draw < 90 THEN "champion" ELSE "challenger"]

C19_Witness ==
    /\ pc = "score_return"
    /\ draw = 90
    /\ model_version = "v2_challenger"
    /\ predict["champion"] = 81
    /\ predict["challenger"] = 80
    /\ confidence = 80

Terminal == {"Dispatched", "Failed"}

NextStage(s) ==
    CASE s = "Pending" -> "Received"
      [] s = "Received" -> "FeaturesBuilt"
      [] s = "FeaturesBuilt" -> "GraphChecked"
      [] s = "GraphChecked" -> "Scored"
      [] s = "Scored" -> "Decided"
      [] s = "Decided" -> "Dispatched"
      [] OTHER -> "none"

\* where the handler stands agrees with the stage the record has reached
StageAtLine ==
    /\ pc = "profile" => status[idx] = "Received" /\ profile_read = "none"
    /\ pc = "features" => status[idx] = "Received" /\ profile_read # "none"
    /\ pc = "graph" =>
          status[idx] = "FeaturesBuilt" /\ profile_read # "none" /\ response = NoResponse
    /\ pc = "score" =>
          status[idx] = "GraphChecked" /\ response # NoResponse /\ model_version = "unset"
    /\ pc = "decide" =>
          status[idx] = "Scored" /\ model_version # "unset" /\ decided[idx] = "none"
    /\ pc \in {"case", "alert", "update"} =>
          status[idx] = "Decided" /\ decided[idx] # "none"
    /\ (idx >= 1 /\ pc \in {"fetch", "returned"}) => status[idx] \in Terminal
    /\ \A i \in 1..MaxBatch :
          /\ i < idx => status[i] \in Terminal
          /\ i > idx => status[i] = "Pending"
          /\ visits[i] <= 1

SideEffect ==
    \/ dispatch' # dispatch /\ dispatch' # NoDispatch
    \/ MessageBody' # MessageBody /\ MessageBody' # NoMessage
    \/ user_profile_table' # user_profile_table

StageStep ==
    /\ \A i \in 1..MaxBatch :
          status'[i] # status[i] =>
              /\ i = idx'
              /\ status[i] \notin Terminal
              /\ status'[i] \in {NextStage(status[i]), "Failed"}
    /\ SideEffect =>
          /\ idx' = idx
          /\ status[idx] = "Decided"
          /\ decided[idx] # "none"
          /\ decided' = decided

\* C20: every record goes through the stages in order (profile read and
\* features, then graph check, then scoring, then decision, then dispatch),
\* no case, alert or profile update happens for a record without a decision,
\* and a record that is Dispatched or Failed changes no more and causes no
\* further side effect.
C20_StagesInOrder == []StageAtLine /\ [][StageStep]_vars

C20_Witness ==
    /\ pc = "returned"
    /\ n = 2
    /\ status[1] = "Failed"
    /\ decided[1] = "FRAUD"
    /\ status[2] = "Dispatched"
    /\ decided[2] = "LEGITIMATE"
    /\ visits = [i \in 1..MaxBatch |-> 1]

\* what a successful profile write of transaction p leaves in the table
Written(table, p) ==
    [table EXCEPT ![p.userId] =
        [@ EXCEPT !.last_latitude = Dec(p.latitude.val),
                  !.last_longitude = Dec(p.longitude.val),
                  !.last_transaction_time = p.timestamp]]

BeforeOwnWrite == {"features", "graph", "score", "decide", "case", "alert", "update"}

ReadsCurrentProfile ==
    (pc \in BeforeOwnWrite /\ profile_read = "ok") =>
        user_profile = user_profile_table[payload.userId]

InOrderStep ==
    /\ idx' \in {idx, idx + 1}
    /\ (idx' = idx + 1 /\ idx >= 1) => status[idx] \in Terminal
    /\ (idx' = idx + 1) => user_profile_table' = user_profile_table
    /\ (user_profile_table' # user_profile_table) =>
          /\ pc = "update"
          /\ decided[idx] = "LEGITIMATE"
          /\ user_profile_table' = Written(user_profile_table, payload)
    /\ (profile_read = "none" /\ profile_read' = "ok") =>
          user_profile' = user_profile_table[payload.userId]

Fields(p) == <<Dec(p.latitude.val), Dec(p.longitude.val), p.timestamp>>
Stored(item) == <<item.last_latitude, item.last_longitude, item.last_transaction_time>>

ProfileFromOneTransaction ==
    \A u \in Users :
        \/ Stored(user_profile_table[u]) = <<None, None, None>>
        \/ /\ dispatch.update = "ok"
           /\ payload.userId = u
           /\ Stored(user_profile_table[u]) = Fields(payload)
        \/ /\ other.update = "ok"
           /\ other.payload.userId = u
           /\ Stored(user_profile_table[u]) = Fields(other.payload)

OnlyProfileStoreShared ==
    /\ (other' # other) => UNCHANGED invocation
    /\ (invocation' # invocation) => other' = other
    /\ (user_profile_table' # user_profile_table) =>
          \/ other' = other /\ user_profile_table' = Written(user_profile_table, payload)
          \/ UNCHANGED invocation
             /\ user_profile_table' = Written(user_profile_table, other.payload)

\* C22: two invocations working on legitimate transactions of one user share
\* only the profile store, every write puts the three attributes of one
\* transaction, and under every interleaving the stored last_latitude,
\* last_longitude and last_transaction_time are those of one single
\* transaction that wrote, never a mix of the two.
C22_LastWriteWins == []ProfileFromOneTransaction /\ [][OnlyProfileStoreShared]_vars

C22_Witness ==
    /\ pc = "returned"
    /\ dispatch.update = "ok"
    /\ other.update = "ok"
    /\ payload.userId = "u1"
    /\ other.payload.userId = "u1"
    /\ profile_read = "ok"
    /\ user_profile = EmptyProfile
    /\ other.user_profile = EmptyProfile
    /\ Fields(payload) = <<Dec(0), Dec(1), Iso(35)>>
    /\ Fields(other.payload) = <<Dec(1), Dec(1), Iso(10)>>
    /\ Stored(user_profile_table["u1"]) = Fields(other.payload)

Returned200 == pc = "returned" /\ statusCode = 200 /\ idx = n

\* C23: with both models loaded, lambda_handler reaches its return for every
\* batch, the return carries status 200 whatever number of records failed,
\* and every record of the batch has been taken by then.
C23_AlwaysReturns200 ==
    /\ ModelsLoaded => <>Returned200
    /\ [](ModelsLoaded /\ pc = "returned" => Returned200)
    /\ [](pc \in {"start", "fetch", "profile", "features", "graph", "score",
                  "decide", "case", "alert", "update", "returned"})

C23_Witness ==
    /\ ModelsLoaded
    /\ n = MaxBatch
    /\ Returned200
    /\ \A i \in 1..MaxBatch : status[i] = "Failed"
    /\ decided[1] = "FRAUD"
    /\ \A i \in 2..MaxBatch : decided[i] = "none"

====
